---------------------------- MODULE Spec2Model ----------------------------
(***************************************************************************)
(* Signature cache of src/zmq/script/sigcache.cpp: CSignatureCache (nonce, *)
(* setValid, cs_sigcache) and the caching checker's VerifySignature, run   *)
(* by concurrent threads.                                                  *)
(*                                                                         *)
(* The 256-bit digest is idealised as collision free: an entry is          *)
(* represented by the byte string that ComputeEntry feeds to CSHA256.      *)
(* Sizes in bytes are scaled: one MiB is 2^MiBShift bytes and size_t is    *)
(* SizeBits wide, so that the wrap-around of the multiplication in Set and *)
(* the eviction loop both happen with a handful of entries.                *)
(***************************************************************************)
EXTENDS Integers, Sequences, FiniteSets

\* ------------------------------------------------------------------ bounds
MiBShift == 7
SizeBits == 10

Threads == {1, 2}
NoThread == 0

RECURSIVE Pow2(_)
Pow2(n) == IF n = 0 THEN 1 ELSE 2 * Pow2(n - 1)

Rep(n, b) == [i \in 1..n |-> b]

\* ------------------------------------------------------------------ inputs
\* Values of the -maxsigcachesize argument (MiB, a signed 64-bit integer).
ArgValues == {-1, 0, 1}

\* Outcomes of GetRandBytes(nonce.begin(), 32).
Nonces == {Rep(32, 5), Rep(32, 6)}

\* Outcomes of GetRandBytes for the instance at namespace scope.
OuterNonces == {Rep(32, 6)}

Hash1 == Rep(32, 1)
Hash2 == Rep(32, 2)
\* Compressed (33 bytes, header 2) and uncompressed (65 bytes, header 4) keys.
Key33 == <<2>> \o Rep(32, 7)
Key65 == <<4>> \o Rep(64, 7)
Sig1 == <<48, 1>>
Sig2 == <<48, 2>>

Triple(s, p, h) == [vchSig |-> s, pubkey |-> p, sighash |-> h]

\* The triples on which TransactionSignatureChecker::VerifySignature is true.
ValidTriples == {Triple(Sig1, Key33, Hash1), Triple(Sig1, Key65, Hash1),
                 Triple(Sig2, Key33, Hash2)}
Triples == ValidTriples \cup {Triple(Sig2, Key33, Hash1)}
NoTriple == Triple(<<>>, <<>>, <<>>)

\* Inputs of ComputeEntry: a key that is not valid (header 255, size 0) and
\* signatures that start with the bytes of a key or of its data.
KeyInvalid == <<255>>
SigAfterKey == Key33 \o Sig1
SigAfterData == Rep(32, 7) \o Sig1
FpTriples ==
    {Triple(s, p, h) : s \in {Sig1, SigAfterKey, SigAfterData},
                       p \in {Key33, Key65, KeyInvalid},
                       h \in {Hash1, Hash2}}

\* ------------------------------------------------------------------- state
VARIABLES
    nonce,            \* CSignatureCache::nonce
    setValid,         \* CSignatureCache::setValid, its elements
    bucket_count,     \* setValid.bucket_count()
    readers,          \* threads holding cs_sigcache in shared mode
    writer,           \* thread holding cs_sigcache in exclusive mode
    maxsigcachesize,  \* the -maxsigcachesize argument
    pc,               \* position of each thread in VerifySignature
    triple,           \* vchSig, pubkey, sighash of the running call
    store,            \* CachingTransactionSignatureChecker::store
    entry,            \* local entry of VerifySignature
    hit,              \* value returned by signatureCache.Get(entry)
    nMaxCacheSize,    \* local nMaxCacheSize of Set
    ret,              \* value returned by VerifySignature
    nbase,            \* history: base verifications made by the running call
    verified,         \* history: triples the base verification accepted
    prev,             \* history: the call before the running one
    prev2,            \* history: the call before prev
    stale,            \* history: another thread inserted entry after Get
    evicted,          \* history: the running Set erased an element
    outerNonce,       \* nonce of the signatureCache at namespace scope
    outerSetValid     \* setValid of the signatureCache at namespace scope

cacheVars == <<nonce, setValid, bucket_count, readers, writer, maxsigcachesize>>
callVars == <<pc, triple, store, entry, hit, nMaxCacheSize, ret>>
histVars == <<nbase, verified, prev, prev2, stale, evicted>>
outerVars == <<outerNonce, outerSetValid>>
vars == <<cacheVars, callVars, histVars, outerVars>>

NoCall == [triple |-> NoTriple, store |-> FALSE, hit |-> FALSE,
           ret |-> FALSE, nbase |-> 0]

\* ----------------------------------------------------------- pure helpers
\* uint256::GetCheapHash of an entry (the digest is idealised, see above).
GetCheapHash(key) == key[Len(key)] + Len(key)

\* CPubKey::GetLen: the length that the header byte of a key announces
GetLen(chHeader) ==
    IF chHeader \in {2, 3} THEN 33
    ELSE IF chHeader \in {4, 6, 7} THEN 65
    ELSE 0

\* CPubKey::size; a public key is given by its bytes vch
PubKeySize(pubkey) == GetLen(pubkey[1])

\* CPubKey::IsValid
IsValid(pubkey) == PubKeySize(pubkey) > 0

ComputeEntryKeyData(n, hash, vchSig, pubkey) ==
    SubSeq(n, 1, 32) \o SubSeq(hash, 1, 32)
        \o SubSeq(pubkey, 2, PubKeySize(pubkey)) \o vchSig

ComputeEntryNoNonce(n, hash, vchSig, pubkey) ==
    SubSeq(hash, 1, 32)
        \o SubSeq(pubkey, 1, PubKeySize(pubkey)) \o vchSig

\* CSHA256().Write(nonce.begin(), 32).Write(hash.begin(), 32)
\*     .Write(&pubkey[0], pubkey.size()).Write(&vchSig[0], vchSig.size())
ComputeEntry(n, hash, vchSig, pubkey) ==
    SubSeq(n, 1, 32) \o SubSeq(hash, 1, 32)
        \o SubSeq(pubkey, 1, PubKeySize(pubkey)) \o vchSig

EntryOf(n, tr) == ComputeEntry(n, tr.sighash, tr.vchSig, tr.pubkey)

\* TransactionSignatureChecker::VerifySignature
BaseVerifySignature(tr) == tr \in ValidTriples

\* memusage::MallocUsage, 64-bit
MallocUsage(alloc) == IF alloc = 0 THEN 0 ELSE ((alloc + 31) \div 16) * 16

\* memusage::DynamicUsage(boost::unordered_set): nodes plus bucket array
DynamicUsage(set, buckets) ==
    MallocUsage(40) * Cardinality(set) + MallocUsage(8 * buckets)

\* setValid.begin(s) .. setValid.end(s): the elements of bucket s
Bucket(set, buckets, s) == {e \in set : GetCheapHash(e) % buckets = s}

\* bucket count after setValid.insert of a new element (max load factor 1)
RECURSIVE GrowBuckets(_, _)
GrowBuckets(buckets, size) ==
    IF size <= buckets THEN buckets ELSE GrowBuckets(2 * buckets, size)

\* GetArg("-maxsigcachesize", ..) * ((size_t) 1 << 20), in size_t arithmetic
MaxCacheBytes(arg) == (arg * Pow2(MiBShift)) % Pow2(SizeBits)

\* ------------------------------------------------------------------- Init
Init ==
    /\ nonce \in Nonces
    /\ setValid = {}
    /\ bucket_count = 1
    /\ readers = {}
    /\ writer = NoThread
    /\ maxsigcachesize \in ArgValues
    /\ pc = [t \in Threads |-> "idle"]
    /\ triple = [t \in Threads |-> NoTriple]
    /\ store = [t \in Threads |-> FALSE]
    /\ entry = [t \in Threads |-> <<>>]
    /\ hit = [t \in Threads |-> FALSE]
    /\ nMaxCacheSize = [t \in Threads |-> 0]
    /\ ret = [t \in Threads |-> FALSE]
    /\ nbase = [t \in Threads |-> 0]
    /\ verified = {}
    /\ prev = NoCall
    /\ prev2 = NoCall
    /\ stale = [t \in Threads |-> FALSE]
    /\ evicted = [t \in Threads |-> FALSE]
    /\ outerNonce \in OuterNonces
    /\ outerSetValid = {}

\* ---------------------------------------------------------------- actions
\* VerifySignature is entered, lines 110-115, with n the nonce of the
\* function-local signatureCache after line 112.
EnterWith(t, tr, st, n) ==
    /\ pc[t] \in {"idle", "done"}
    /\ nonce' = n
    /\ triple' = [triple EXCEPT ![t] = tr]
    /\ store' = [store EXCEPT ![t] = st]
    /\ entry' = [entry EXCEPT ![t] = EntryOf(n, tr)]
    /\ hit' = [hit EXCEPT ![t] = FALSE]
    /\ nMaxCacheSize' = [nMaxCacheSize EXCEPT ![t] = 0]
    /\ ret' = [ret EXCEPT ![t] = FALSE]
    /\ nbase' = [nbase EXCEPT ![t] = 0]
    /\ stale' = [stale EXCEPT ![t] = FALSE]
    /\ evicted' = [evicted EXCEPT ![t] = FALSE]
    /\ pc' = [pc EXCEPT ![t] = "Get"]
    /\ UNCHANGED <<setValid, bucket_count, readers, writer, maxsigcachesize>>
    /\ UNCHANGED <<verified, outerVars>>

EnterFreshNonce(t, tr, st) == \E n \in Nonces : EnterWith(t, tr, st, n)

\* static CSignatureCache signatureCache: constructed once, its nonce stays
Enter(t, tr, st) == EnterWith(t, tr, st, nonce)

\* A call by one of several concurrent callers.
Call(t, tr, st) ==
    /\ Enter(t, tr, st)
    /\ UNCHANGED <<prev, prev2>>

\* A call by a single caller, which remembers its two preceding calls.
SeqCall(t, tr, st) ==
    /\ Enter(t, tr, st)
    /\ prev' = IF pc[t] = "done"
               THEN [triple |-> triple[t], store |-> store[t], hit |-> hit[t],
                     ret |-> ret[t], nbase |-> nbase[t]]
               ELSE NoCall
    /\ prev2' = prev

\* Get, line 61: the shared lock is taken.
GetLock(t) ==
    /\ pc[t] = "Get"
    /\ writer = NoThread
    /\ readers' = readers \cup {t}
    /\ pc' = [pc EXCEPT ![t] = "GetCount"]
    /\ UNCHANGED <<nonce, setValid, bucket_count, writer, maxsigcachesize>>
    /\ UNCHANGED <<triple, store, entry, hit, nMaxCacheSize, ret, histVars, outerVars>>

\* Get returns found, lines 62-63, and the branch of lines 117-122.
Lookup(t, found) ==
    /\ pc[t] = "GetCount"
    /\ hit' = [hit EXCEPT ![t] = found]
    /\ readers' = readers \ {t}
    /\ IF found
       THEN IF ~store[t]
            THEN /\ pc' = [pc EXCEPT ![t] = "Erase"]
                 /\ UNCHANGED ret
            ELSE /\ pc' = [pc EXCEPT ![t] = "done"]
                 /\ ret' = [ret EXCEPT ![t] = TRUE]
       ELSE /\ pc' = [pc EXCEPT ![t] = "Verify"]
            /\ UNCHANGED ret
    /\ UNCHANGED <<nonce, setValid, bucket_count, writer, maxsigcachesize>>
    /\ UNCHANGED <<triple, store, entry, nMaxCacheSize, histVars, outerVars>>

GetCountByCheapHash(t) ==
    Lookup(t, \E e \in setValid : GetCheapHash(e) = GetCheapHash(entry[t]))

GetCountHit(t) == Lookup(t, TRUE)

GetCountMiss(t) == Lookup(t, FALSE)

\* return setValid.count(entry)
GetCount(t) == Lookup(t, entry[t] \in setValid)

\* boost::unique_lock<boost::shared_mutex> lock(cs_sigcache), once free is true
UniqueLock(t, from, to, free) ==
    /\ pc[t] = from
    /\ free
    /\ writer' = t
    /\ pc' = [pc EXCEPT ![t] = to]
    /\ UNCHANGED <<nonce, setValid, bucket_count, readers, maxsigcachesize>>
    /\ UNCHANGED <<triple, store, entry, hit, nMaxCacheSize, ret, histVars, outerVars>>

\* Erase, line 67: the exclusive lock is taken.
EraseLock(t) == UniqueLock(t, "Erase", "EraseDo", writer = NoThread /\ readers = {})

\* Erase leaves the elements rest, lines 68-69, and the return of line 121.
EraseTo(t, rest) ==
    /\ pc[t] = "EraseDo"
    /\ setValid' = rest
    /\ writer' = NoThread
    /\ ret' = [ret EXCEPT ![t] = TRUE]
    /\ pc' = [pc EXCEPT ![t] = "done"]
    /\ UNCHANGED <<nonce, bucket_count, readers, maxsigcachesize>>
    /\ UNCHANGED <<triple, store, entry, hit, nMaxCacheSize>>
    /\ UNCHANGED <<nbase, verified, prev, prev2, stale, evicted, outerVars>>

EraseNothing(t) == EraseTo(t, setValid)

EraseAll(t) == EraseTo(t, {})

\* setValid.erase(entry)
EraseDo(t) == EraseTo(t, setValid \ {entry[t]})

\* Lines 124-130: the base verification, taken as passed, and what follows it.
VerifyThen(t, passed) ==
    /\ pc[t] = "Verify"
    /\ nbase' = [nbase EXCEPT ![t] = @ + 1]
    /\ verified' = IF BaseVerifySignature(triple[t])
                   THEN verified \cup {triple[t]} ELSE verified
    /\ IF ~passed
       THEN /\ ret' = [ret EXCEPT ![t] = FALSE]
            /\ pc' = [pc EXCEPT ![t] = "done"]
       ELSE /\ IF store[t]
               THEN /\ pc' = [pc EXCEPT ![t] = "Set"]
                    /\ UNCHANGED ret
               ELSE /\ pc' = [pc EXCEPT ![t] = "done"]
                    /\ ret' = [ret EXCEPT ![t] = TRUE]
    /\ UNCHANGED <<cacheVars, triple, store, entry, hit, nMaxCacheSize>>
    /\ UNCHANGED <<prev, prev2, stale, evicted, outerVars>>

BaseVerifyTrusting(t) == VerifyThen(t, TRUE)

\* if (!TransactionSignatureChecker::VerifySignature(vchSig, pubkey, sighash))
BaseVerify(t) == VerifyThen(t, BaseVerifySignature(triple[t]))

\* Set, lines 73-74.
SetArg(t) ==
    /\ pc[t] = "Set"
    /\ nMaxCacheSize' = [nMaxCacheSize EXCEPT ![t] = MaxCacheBytes(maxsigcachesize)]
    /\ IF MaxCacheBytes(maxsigcachesize) <= 0
       THEN /\ pc' = [pc EXCEPT ![t] = "done"]
            /\ ret' = [ret EXCEPT ![t] = TRUE]
       ELSE /\ pc' = [pc EXCEPT ![t] = "SetLock"]
            /\ UNCHANGED ret
    /\ UNCHANGED <<cacheVars, triple, store, entry, hit, histVars, outerVars>>

SetLockOverReaders(t) == UniqueLock(t, "SetLock", "SetLoop", writer = NoThread)

\* Set, line 76: the exclusive lock is taken.
SetLock(t) == UniqueLock(t, "SetLock", "SetLoop", writer = NoThread /\ readers = {})

\* Set, lines 77-84: one turn of the eviction loop, taken when over is true;
\* erases tells whether line 82 is executed for a bucket that has an element.
EvictStep(t, over, erases) ==
    /\ pc[t] = "SetLoop"
    /\ over
    /\ \E s \in 0..(bucket_count - 1) :
          IF Bucket(setValid, bucket_count, s) # {} /\ erases
          THEN \E e \in Bucket(setValid, bucket_count, s) :
                  /\ setValid' = setValid \ {e}
                  /\ evicted' = [evicted EXCEPT ![t] = TRUE]
          ELSE UNCHANGED <<setValid, evicted>>
    /\ UNCHANGED <<nonce, bucket_count, readers, writer, maxsigcachesize>>
    /\ UNCHANGED <<callVars, nbase, verified, prev, prev2, stale, outerVars>>

\* while (memusage::DynamicUsage(setValid) > nMaxCacheSize)
EvictTurn(t, erases) ==
    EvictStep(t, DynamicUsage(setValid, bucket_count) > nMaxCacheSize[t], erases)

EvictSkipped(t) == EvictTurn(t, FALSE)

EvictEager(t) == EvictStep(t, DynamicUsage(setValid, bucket_count) > 0, TRUE)

\* if (it != setValid.end(s)) setValid.erase(*it)
Evict(t) == EvictTurn(t, TRUE)

\* Set, lines 77 and 86-87, and the return of line 130: the loop is left when
\* over is false; the elements of the function-local instance become full,
\* those of the instance at namespace scope outerFull.
InsertInto(t, over, full, outerFull) ==
    /\ pc[t] = "SetLoop"
    /\ ~over
    /\ setValid' = full
    /\ outerSetValid' = outerFull
    /\ UNCHANGED outerNonce
    /\ bucket_count' = GrowBuckets(bucket_count, Cardinality(full))
    /\ writer' = NoThread
    /\ ret' = [ret EXCEPT ![t] = TRUE]
    /\ pc' = [pc EXCEPT ![t] = "done"]
    /\ stale' = [u \in Threads |->
                   IF u # t /\ pc[u] = "Verify" /\ entry[u] = entry[t]
                   THEN TRUE ELSE stale[u]]
    /\ UNCHANGED <<nonce, readers, maxsigcachesize>>
    /\ UNCHANGED <<triple, store, entry, hit, nMaxCacheSize>>
    /\ UNCHANGED <<nbase, verified, prev, prev2, evicted>>

\* signatureCache in VerifySignature is the function-local instance
InsertTo(t, over, full) == InsertInto(t, over, full, outerSetValid)

SetInsertOuter(t) ==
    InsertInto(t, DynamicUsage(setValid, bucket_count) > nMaxCacheSize[t],
               setValid, outerSetValid \cup {entry[t]})

SetInsertThenEvict(t) ==
    \E e \in setValid \cup {entry[t]} :
       InsertTo(t, FALSE,
                IF DynamicUsage(setValid \cup {entry[t]}, bucket_count)
                      > nMaxCacheSize[t]
                THEN (setValid \cup {entry[t]}) \ {e}
                ELSE setValid \cup {entry[t]})

SetInsertNothing(t) ==
    InsertTo(t, DynamicUsage(setValid, bucket_count) > nMaxCacheSize[t], setValid)

SetInsertUnchecked(t) == InsertTo(t, FALSE, setValid \cup {entry[t]})

\* while (DynamicUsage(setValid) > nMaxCacheSize) .. setValid.insert(entry)
SetInsert(t) ==
    InsertTo(t, DynamicUsage(setValid, bucket_count) > nMaxCacheSize[t],
             setValid \cup {entry[t]})

\* The steps of a call once it is entered.
Body(t) ==
    \/ GetLock(t)
    \/ GetCount(t)
    \/ EraseLock(t)
    \/ EraseDo(t)
    \/ BaseVerify(t)
    \/ SetArg(t)
    \/ SetLock(t)
    \/ Evict(t)
    \/ SetInsert(t)

\* Concurrent callers.
Next ==
    \E t \in Threads :
       \/ \E tr \in Triples, st \in BOOLEAN : Call(t, tr, st)
       \/ Body(t)

Spec == Init /\ [][Next]_vars

\* Steps that wait for nothing, and steps that wait for cs_sigcache.
Local(t) ==
    GetCount(t) \/ EraseDo(t) \/ BaseVerify(t) \/ SetArg(t) \/ Evict(t) \/ SetInsert(t)

Acquire(t) == GetLock(t) \/ EraseLock(t) \/ SetLock(t)

\* Concurrent callers under a fair scheduler, a fair lock and a fair GetRand:
\* a thread that can run does, a thread that can take the lock again and
\* again gets it, and the loop of Set comes to choose a bucket with an element.
LiveInit == Init /\ nonce = Rep(32, 5)

LiveTriples == {tr \in Triples : tr.pubkey = Key33}

\* Concurrent callers that pass triples with one public key.
LiveNext ==
    \E t \in Threads :
       \/ \E tr \in LiveTriples, st \in BOOLEAN : Call(t, tr, st)
       \/ Body(t)

LiveSpec ==
    /\ LiveInit
    /\ [][LiveNext]_vars
    /\ \A t \in Threads : WF_vars(Local(t)) /\ SF_vars(Acquire(t))

\* Callers that derive the entry of any input and go no further.
FpNext == \E t \in Threads, tr \in FpTriples : Call(t, tr, TRUE)

FpSpec == Init /\ [][FpNext]_vars

\* One caller, one call after the other.
SeqNext ==
    \/ \E tr \in Triples, st \in BOOLEAN : SeqCall(1, tr, st)
    \/ Body(1)

SeqSpec == Init /\ [][SeqNext]_vars

\* ----------------------------------------------------------------- claims
Returned(t) == pc[t] = "done"

\* C1: every member of setValid is the entry of a triple that the base
\* verification has accepted, and a call returns true only for a triple that
\* the base verification has accepted.
C1_OnlyVerifiedIsCached ==
    /\ \A e \in setValid : \E tr \in verified : EntryOf(nonce, tr) = e
    /\ \A t \in Threads : Returned(t) /\ ret[t] => triple[t] \in verified

C1_Witness ==
    \E t \in Threads : Returned(t) /\ ret[t] /\ hit[t] /\ nbase[t] = 0
                       /\ Cardinality(setValid) >= 2

\* The second of two identical storing calls on a valid triple, the first of
\* which started with the entry absent, has returned.
RepeatedStoringCall ==
    /\ Returned(1)
    /\ triple[1] \in ValidTriples
    /\ prev.triple = triple[1]
    /\ prev.store /\ store[1]
    /\ ~prev.hit

FirstVerifiesSecondDoesNot ==
    /\ prev.nbase = 1 /\ prev.ret
    /\ nbase[1] = 0 /\ ret[1]

\* C2 as stated: the first call verifies once and returns true, the identical
\* call that follows it returns true without a base verification.
C2_Original == RepeatedStoringCall => FirstVerifiesSecondDoesNot

\* C2, amended: the same, when the byte bound that Set computes is not zero.
C2_RepeatHit ==
    RepeatedStoringCall /\ MaxCacheBytes(maxsigcachesize) # 0
        => FirstVerifiesSecondDoesNot

C2_Witness ==
    RepeatedStoringCall /\ MaxCacheBytes(maxsigcachesize) # 0 /\ hit[1]

\* C3: a step of a call on a triple that the base verification rejects leaves
\* setValid as it is, and such a call returns false after exactly one base
\* verification, whatever its store flag.
C3_NoNegativeCaching ==
    [][\A t \in Threads :
          pc'[t] # pc[t] /\ ~BaseVerifySignature(triple'[t])
              => /\ setValid' = setValid
                 /\ Returned(t)' => ~ret'[t] /\ nbase'[t] = 1]_vars

C3_Witness ==
    \E t \in Threads : /\ Returned(t) /\ triple[t] \in Triples \ ValidTriples
                       /\ store[t] /\ ~ret[t] /\ nbase[t] = 1 /\ setValid # {}

\* C4: a non-storing call that hits, after a storing call on the same triple,
\* returns true without a base verification and leaves the entry absent; the
\* identical storing call after it misses and verifies again.
C4_NonStoringHitPurges ==
    /\ /\ Returned(1) /\ prev.triple = triple[1]
       /\ prev.store /\ ~store[1] /\ hit[1]
       => ret[1] /\ nbase[1] = 0 /\ entry[1] \notin setValid
    /\ /\ Returned(1) /\ prev2.triple = triple[1] /\ prev.triple = triple[1]
       /\ prev2.store /\ ~prev.store /\ prev.hit /\ store[1]
       => prev.ret /\ prev.nbase = 0 /\ ~hit[1] /\ nbase[1] = 1 /\ ret[1]

C4_Witness ==
    /\ Returned(1) /\ prev2.triple = triple[1] /\ prev.triple = triple[1]
    /\ prev2.store /\ ~prev.store /\ prev.hit /\ store[1]
    /\ nbase[1] = 1

\* Thread t returns from Set with the insertion made.
SetReturns(t) == pc[t] = "SetLoop" /\ pc'[t] = "done"

OneEntryUsage == DynamicUsage({<<>>}, 1)

\* C5 as stated: when Set returns, under a bound that admits one entry, the
\* footprint with the inserted entry is at most the bound.
C5_Original ==
    [][\A t \in Threads :
          SetReturns(t) /\ nMaxCacheSize[t] >= OneEntryUsage
              => DynamicUsage(setValid', bucket_count') <= nMaxCacheSize[t]]_vars

\* C5, amended: when Set returns, the footprint exceeds the bound by no more
\* than what the insertion added, one node and the growth of the bucket array.
C5_BoundBeforeInsertion ==
    [][\A t \in Threads :
          SetReturns(t)
              => DynamicUsage(setValid', bucket_count')
                    <= nMaxCacheSize[t] + MallocUsage(40)
                       + MallocUsage(8 * bucket_count')
                       - MallocUsage(8 * bucket_count)]_vars

C5_Witness ==
    \E t \in Threads : /\ Returned(t) /\ evicted[t] /\ entry[t] \in setValid
                       /\ nMaxCacheSize[t] >= OneEntryUsage
                       /\ DynamicUsage(setValid, bucket_count) > nMaxCacheSize[t]

\* C6 as stated: with a zero or negative -maxsigcachesize, setValid stays
\* empty and every call on a valid triple makes a base verification.
C6_NonPositiveDisables ==
    maxsigcachesize <= 0
        => /\ setValid = {}
           /\ \A t \in Threads :
                 Returned(t) /\ triple[t] \in ValidTriples => nbase[t] = 1

InLookup(t) == pc[t] = "GetCount"
InExclusive(t) == pc[t] \in {"EraseDo", "SetLoop"}

\* C7: a thread inside Set or Erase holds the exclusive lock and no other
\* thread is inside Get, Set or Erase; a thread inside Get holds the shared
\* lock; setValid and its bucket array change only under the exclusive lock.
C7_LockDiscipline ==
    /\ [](\A t \in Threads :
             /\ InExclusive(t) => /\ writer = t
                                  /\ readers = {}
                                  /\ \A u \in Threads \ {t} :
                                        ~InLookup(u) /\ ~InExclusive(u)
             /\ InLookup(t) => t \in readers /\ writer = NoThread)
    /\ [][setValid' # setValid \/ bucket_count' # bucket_count
             => writer # NoThread /\ InExclusive(writer) /\ readers = {}]_vars

C7_Witness == \A t \in Threads : InLookup(t) /\ t \in readers

\* Thread t makes its base verification.
Verifies(t) == pc[t] = "Verify" /\ pc'[t] # "Verify"

\* C8 as stated: a triple is not passed to the base verification while its
\* entry is in setValid.
C8_Original ==
    [][\A t \in Threads : Verifies(t) => entry[t] \notin setValid]_vars

\* C8, amended: a call makes at most one base verification, after its own
\* Get missed; the entry is in setValid at that moment only when another
\* thread inserted it after that Get.
C8_VerifiesAfterOwnMiss ==
    [][\A t \in Threads :
          Verifies(t) => /\ ~hit[t] /\ nbase[t] = 0 /\ nbase'[t] = 1
                         /\ entry[t] \in setValid => stale[t]]_vars

C8_Witness ==
    \E t \in Threads : Returned(t) /\ nbase[t] = 1 /\ stale[t]
                       /\ \E u \in Threads \ {t} : triple[u] = triple[t] /\ nbase[u] = 1

InCall(t) == pc[t] \notin {"idle", "done"}

TwoInputs(t, u) ==
    pc[t] = "Get" /\ pc[u] = "Get" /\ triple[t] # triple[u]

Derived(t) == pc[t] # "idle"

\* C11: no step changes the nonce, and after every step the entries that
\* callers have derived start with the nonce, are the entry of the caller's
\* inputs under that nonce, and are equal for callers with equal inputs.
C11_NonceWrittenOnce ==
    [][/\ nonce' = nonce
       /\ \A t \in Threads :
             Derived(t)' =>
                /\ SubSeq(entry'[t], 1, 32) = nonce
                /\ entry'[t] = EntryOf(nonce, triple'[t])
                /\ \A u \in Threads :
                      Derived(u)' /\ triple'[u] = triple'[t]
                          => entry'[u] = entry'[t]]_vars

C11_Witness ==
    /\ Returned(1) /\ hit[1] /\ pc[2] = "Get"
    /\ triple[1] = triple[2] /\ store[1] # store[2]
    /\ entry[1] = entry[2]
    /\ entry[1] \notin setValid

\* C12: when the function-local instance and the instance at namespace scope
\* have different nonces, they derive different entries for every triple, and
\* for an entry that is in setValid of the one, the entry of the same triple
\* under the nonce of the other is neither that entry nor in setValid of the
\* other.
C12_SecretSeparation ==
    nonce # outerNonce =>
       \A tr \in Triples :
          /\ EntryOf(nonce, tr) # EntryOf(outerNonce, tr)
          /\ EntryOf(nonce, tr) \in setValid
                => /\ EntryOf(outerNonce, tr) \notin setValid
                   /\ EntryOf(outerNonce, tr) \notin outerSetValid
                   /\ EntryOf(nonce, tr) \notin outerSetValid

C12_Witness ==
    /\ nonce # outerNonce
    /\ Returned(1) /\ hit[1] /\ store[1]
    /\ entry[1] \in setValid
    /\ entry[1] = EntryOf(nonce, triple[1])
    /\ entry[1] # EntryOf(outerNonce, triple[1])
    /\ Cardinality(setValid) >= 2

\* The call of thread t returns in this step.
Returns(t) == pc[t] # "done" /\ pc'[t] = "done"

\* Thread t is the one inside Erase or Set.
Mutates(t) == writer = t

\* The call of thread t missed, verified its valid triple and stores.
StoringValidMiss(t) ==
    ~hit[t] /\ store[t] /\ BaseVerifySignature(triple[t]) /\ nbase[t] = 1

\* setValid changes only in a call that hit and does not store, which removes
\* its entry and nothing else, or in a storing call that missed and verified
\* its valid triple, which erases or inserts its entry.
ChangesInTwoCases ==
    \A t \in Threads :
       Mutates(t) /\ setValid' # setValid =>
          \/ /\ hit[t] /\ ~store[t] /\ nbase[t] = 0
             /\ setValid' = setValid \ {entry[t]}
          \/ /\ StoringValidMiss(t)
             /\ \/ setValid' = setValid \cup {entry[t]}
                \/ \E e \in setValid : setValid' = setValid \ {e}

\* A non-storing call that hit returns with its entry absent, and a call that
\* hit has made no base verification.
HitEffects ==
    \A t \in Threads :
       /\ Returns(t) /\ hit[t] /\ ~store[t] => entry[t] \notin setValid'
       /\ hit'[t] => nbase'[t] = 0

\* C13 as stated: setValid changes in these two cases only, and a storing
\* call that missed and verified its valid triple returns with its entry in
\* setValid.
C13_Original ==
    [][/\ ChangesInTwoCases
       /\ HitEffects
       /\ \A t \in Threads :
             Returns(t) /\ StoringValidMiss(t) => entry[t] \in setValid']_vars

\* C13, amended: the same, where the storing call returns with its entry in
\* setValid when the byte bound that Set computes is not zero.
C13_TwoCasesChangeMembership ==
    [][/\ ChangesInTwoCases
       /\ HitEffects
       /\ \A t \in Threads :
             (Returns(t) /\ StoringValidMiss(t)
                 /\ MaxCacheBytes(maxsigcachesize) # 0)
                => entry[t] \in setValid']_vars

C13_Witness ==
    \E t \in Threads :
       /\ Returned(t) /\ ~hit[t] /\ store[t] /\ nbase[t] = 1 /\ evicted[t]
       /\ entry[t] \in setValid
       /\ \E u \in Threads \ {t} :
             /\ Returned(u) /\ hit[u] /\ ~store[u] /\ nbase[u] = 0
             /\ entry[u] \notin setValid

\* Thread t takes a step of Get.
GetSteps(t) == pc[t] \in {"Get", "GetCount"} /\ pc'[t] # pc[t]

\* C14: a step of Get leaves setValid, its bucket count and its footprint
\* unchanged, and the step in which Get returns gives true exactly when the
\* entry is in setValid.
C14_GetReadsMembership ==
    [][\A t \in Threads :
          GetSteps(t) =>
             /\ setValid' = setValid
             /\ bucket_count' = bucket_count
             /\ DynamicUsage(setValid', bucket_count')
                    = DynamicUsage(setValid, bucket_count)
             /\ pc[t] = "GetCount" => (hit'[t] <=> entry[t] \in setValid)]_vars

C14_Witness ==
    \E t \in Threads, u \in Threads :
       /\ pc[t] = "Erase" /\ hit[t] /\ entry[t] \in setValid
       /\ pc[u] = "Verify" /\ ~hit[u] /\ entry[u] \notin setValid
       /\ GetCheapHash(entry[t]) = GetCheapHash(entry[u])

\* Erase of thread t returns in this step.
EraseReturns(t) == pc[t] = "EraseDo" /\ pc'[t] = "done"

\* C15: when Erase of an entry returns, setValid is what it was without that
\* entry: the entry is absent, every other element is kept, nothing changes
\* when the entry was absent, and erasing it once more would change nothing.
C15_EraseRemovesOne ==
    [][\A t \in Threads :
          EraseReturns(t) =>
             /\ setValid' = setValid \ {entry[t]}
             /\ entry[t] \notin setValid'
             /\ \A e \in setValid : e # entry[t] => e \in setValid'
             /\ entry[t] \notin setValid => setValid' = setValid
             /\ setValid' \ {entry[t]} = setValid'
             /\ bucket_count' = bucket_count]_vars

C15_Witness ==
    /\ \A t \in Threads : Returned(t) /\ hit[t] /\ ~store[t]
    /\ entry[1] = entry[2]
    /\ entry[1] \notin setValid
    /\ setValid # {}

\* The call of thread t returns from Set, entered under a positive byte bound.
SetReturnsUnderPositiveBound(t) ==
    /\ pc[t] \in {"Set", "SetLoop"} /\ pc'[t] = "done"
    /\ MaxCacheBytes(maxsigcachesize) > 0

\* C16: when Set of an entry returns, under a positive byte bound, the entry
\* is in setValid, whatever the call has erased before.
C16_InsertedOnReturn ==
    [][\A t \in Threads :
          SetReturnsUnderPositiveBound(t) => entry[t] \in setValid']_vars

C16_Witness ==
    \E t \in Threads, u \in Threads :
       /\ Returned(t) /\ store[t] /\ ~hit[t] /\ evicted[t]
       /\ entry[t] \in setValid
       /\ Returned(u) /\ store[u] /\ ~hit[u] /\ nbase[u] = 1 /\ ~evicted[u]
       /\ BaseVerifySignature(triple[u])
       /\ entry[u] \notin setValid

\* Thread t is in the loop of Set, with the footprint over its bound or not.
InSetLoop(t) == writer = t /\ pc[t] = "SetLoop"

OverBound(t) == DynamicUsage(setValid, bucket_count) > nMaxCacheSize[t]

\* C17: while a thread is in Set with the footprint at or under its bound, the
\* only change of setValid is the insertion of its entry, with which Set
\* returns; and a turn of the loop that changes setValid is made with the
\* footprint over the bound and erases exactly one element of one bucket.
C17_EvictsOnlyOverBound ==
    [][\A t \in Threads :
          /\ InSetLoop(t) /\ ~OverBound(t) =>
                /\ setValid' \in {setValid, setValid \cup {entry[t]}}
                /\ pc'[t] # pc[t] =>
                      /\ pc'[t] = "done"
                      /\ setValid' = setValid \cup {entry[t]}
          /\ InSetLoop(t) /\ pc'[t] = pc[t] /\ setValid' # setValid =>
                /\ OverBound(t)
                /\ \E s \in 0..(bucket_count - 1) :
                      \E e \in Bucket(setValid, bucket_count, s) :
                         setValid' = setValid \ {e}
                /\ Cardinality(setValid') = Cardinality(setValid) - 1]_vars

C17_Witness ==
    \E t \in Threads :
       /\ InSetLoop(t) /\ ~OverBound(t) /\ evicted[t]
       /\ entry[t] \notin setValid
       /\ setValid # {}
       /\ bucket_count > 1
       /\ \E s \in 0..(bucket_count - 1) : Bucket(setValid, bucket_count, s) = {}

=============================================================================
